---- MODULE Spec2Model ----
(***************************************************************************)
(* Model of sync.py: one run of DNSSync.sync() as called from main().      *)
(* The git change report, the file contents, the provider's answers and    *)
(* the success of every provider call are inputs chosen by the             *)
(* environment when the code reads them.                                   *)
(***************************************************************************)
EXTENDS Integers, Sequences, FiniteSets, TLC

VARIABLES
    pc,            \* position of the run inside main()/sync()
    changeReport,  \* what `git diff --name-status` gave: unread, ok or error
    report,        \* result.stdout split into lines, while get_changed_files holds it
    changes,       \* the dict returned by get_changed_files
    cf_records,    \* the snapshot returned by list_records
    calls,         \* every provider call of the run, in the order they were issued
    results        \* one entry per processed file, in processing order

vars == <<pc, changeReport, report, changes, cf_records, calls, results>>

(***************************************************************************)
(* Bounds of the model.                                                    *)
(***************************************************************************)
MaxReport == 2     \* lines of the change report

(***************************************************************************)
(* Program constants.                                                      *)
(***************************************************************************)
DefaultTTL == 3600

records_dir == "records"

(***************************************************************************)
(* The input universe.  A path is dir + "/" + stem + ext.                  *)
(***************************************************************************)
PathA == [dir |-> "records", stem |-> "a", ext |-> ".yaml"]
PathB == [dir |-> "records", stem |-> "b", ext |-> ".yml"]
PathTxt == [dir |-> "records", stem |-> "c", ext |-> ".txt"]
PathDocs == [dir |-> "docs", stem |-> "d", ext |-> ".yaml"]

Paths == {PathA, PathB, PathTxt, PathDocs}

Statuses == {"A", "M", "D", "R100"}

\* A line of the report: status TAB path, or a non-empty line without a TAB.
Unparsable == [parts |-> 1]
Line(s, p) == [parts |-> 2, status |-> s, filepath |-> p]
Lines == {Line(s, p) : s \in Statuses, p \in Paths} \cup {Unparsable}

RECURSIVE SeqsUpTo(_, _)
SeqsUpTo(S, n) ==
    IF n = 0 THEN {<<>>}
    ELSE LET shorter == SeqsUpTo(S, n - 1)
         IN shorter \cup {Append(q, x) : q \in {r \in shorter : Len(r) = n - 1}, x \in S}

Reports == SeqsUpTo(Lines, MaxReport)

\* Live records as the provider lists them.
LiveA1 == [id |-> "r1", name |-> "a.example.com", type |-> "A",
           content |-> "1.2.3.4", ttl |-> 3600, proxied |-> FALSE]
LiveA2 == [id |-> "r2", name |-> "a.example.com", type |-> "A",
           content |-> "1.2.3.5", ttl |-> 3600, proxied |-> FALSE]
LiveMX == [id |-> "r3", name |-> "a.example.com", type |-> "MX",
           content |-> "mail.example.com", ttl |-> 3600, proxied |-> FALSE,
           priority |-> 10]

Snapshots == {<<>>, <<LiveA1>>, <<LiveA1, LiveA2>>, <<LiveMX, LiveA1>>}

\* What reading and parsing one definition file can give.
Map(d) == [kind |-> "map", doc |-> d]
NoneDoc == [kind |-> "none"]            \* an empty document: yaml gives None
ParseError == [kind |-> "parse_error"]  \* yaml.safe_load raises
ReadFail == [kind |-> "readfail"]       \* open() / git show raises

DocSame == [name |-> "a.example.com", type |-> "A", content |-> "1.2.3.4"]
DocDiff == [name |-> "a.example.com", type |-> "A", content |-> "9.9.9.9"]
DocTtl == [name |-> "a.example.com", type |-> "A", content |-> "1.2.3.4",
           ttl |-> 300, proxied |-> FALSE]
DocNew == [name |-> "b.example.com", type |-> "A", content |-> "1.2.3.4"]
DocMX == [name |-> "a.example.com", type |-> "MX", content |-> "mail.example.com",
          priority |-> 20]
DocNoName == [type |-> "A", content |-> "1.2.3.4"]
DocNoType == [name |-> "a.example.com", content |-> "1.2.3.4"]
DocNoContent == [name |-> "a.example.com", type |-> "A"]

Docs == {DocSame, DocDiff, DocTtl, DocNew, DocMX, DocNoName, DocNoType, DocNoContent}

Contents == {Map(d) : d \in Docs} \cup {NoneDoc, ParseError, ReadFail}

(***************************************************************************)
(* get_changed_files: the loop over the lines of the change report.        *)
(***************************************************************************)
NoChanges == [added |-> {}, modified |-> {}, deleted |-> {}]

Raised == [kind |-> "raise"]
Returned(v) == [kind |-> "ok", value |-> v]

\* filepath.startswith(f"{self.records_dir}/")
InRecordsDir(filepath) == filepath.dir = records_dir

\* filepath.endswith(".yaml") or filepath.endswith(".yml")
HasRecordExt(filepath) == filepath.ext = ".yaml" \/ filepath.ext = ".yml"

\* Mutant: the status dispatch ends in a bare else.
AddChangeBareElse(ch, status, filepath) ==
    IF status = "A" THEN [ch EXCEPT !.added = @ \cup {filepath}]
    ELSE IF status = "D" THEN [ch EXCEPT !.deleted = @ \cup {filepath}]
    ELSE [ch EXCEPT !.modified = @ \cup {filepath}]

AddChange(ch, status, filepath) ==
    IF status = "A" THEN [ch EXCEPT !.added = @ \cup {filepath}]
    ELSE IF status = "M" THEN [ch EXCEPT !.modified = @ \cup {filepath}]
    ELSE IF status = "D" THEN [ch EXCEPT !.deleted = @ \cup {filepath}]
    ELSE ch

\* Mutant: a line without a TAB is skipped like an empty line.
RECURSIVE ClassifySkipUnparsable(_, _, _)
ClassifySkipUnparsable(lines, i, ch) ==
    IF i > Len(lines) THEN Returned(ch)
    ELSE IF lines[i].parts < 2 THEN ClassifySkipUnparsable(lines, i + 1, ch)
    ELSE IF ~InRecordsDir(lines[i].filepath) THEN ClassifySkipUnparsable(lines, i + 1, ch)
    ELSE IF ~HasRecordExt(lines[i].filepath) THEN ClassifySkipUnparsable(lines, i + 1, ch)
    ELSE ClassifySkipUnparsable(lines, i + 1,
                                AddChange(ch, lines[i].status, lines[i].filepath))

RECURSIVE ClassifyFrom(_, _, _)
ClassifyFrom(lines, i, ch) ==
    IF i > Len(lines) THEN Returned(ch)
    ELSE IF lines[i].parts < 2 THEN Raised          \* parts[1]: IndexError
    ELSE IF ~InRecordsDir(lines[i].filepath) THEN ClassifyFrom(lines, i + 1, ch)
    ELSE IF ~HasRecordExt(lines[i].filepath) THEN ClassifyFrom(lines, i + 1, ch)
    ELSE ClassifyFrom(lines, i + 1, AddChange(ch, lines[i].status, lines[i].filepath))

get_changed_files(lines) == ClassifyFrom(lines, 1, NoChanges)

(***************************************************************************)
(* load_yaml_record, find_matching_record, records_differ.                 *)
(***************************************************************************)
HasKey(y, field) == y.kind = "map" /\ field \in DOMAIN y.doc

\* The record, or the exception of open(), of yaml.safe_load, of
\* `field not in record` on a document that is no mapping, or the ValueError
\* of a missing required field.
load_yaml_record(content) ==
    IF content.kind \in {"readfail", "parse_error", "none"} THEN Raised
    ELSE IF \E field \in {"name", "type", "content"} : ~HasKey(content, field) THEN Raised
    ELSE Returned(content)

NotFound == [kind |-> "none"]
Found(cf_record) == [kind |-> "found", rec |-> cf_record]

\* Mutant: the scan does not stop at the first match, the last one wins.
RECURSIVE FindLastFrom(_, _, _)
FindLastFrom(yaml_record, cfs, i) ==
    IF i > Len(cfs) THEN NotFound
    ELSE IF ~HasKey(yaml_record, "name") \/ ~HasKey(yaml_record, "type") THEN Raised
    ELSE LET later == FindLastFrom(yaml_record, cfs, i + 1)
         IN IF later.kind = "found" THEN later
            ELSE IF cfs[i].name = yaml_record.doc.name /\ cfs[i].type = yaml_record.doc.type
            THEN Found(cfs[i])
            ELSE NotFound

\* The scan subscripts yaml_record["name"] at every snapshot entry and
\* yaml_record["type"] only where the names are equal.
RECURSIVE FindFrom(_, _, _)
FindFrom(yaml_record, cfs, i) ==
    IF i > Len(cfs) THEN NotFound
    ELSE IF ~HasKey(yaml_record, "name") THEN Raised
    ELSE IF cfs[i].name # yaml_record.doc.name THEN FindFrom(yaml_record, cfs, i + 1)
    ELSE IF ~HasKey(yaml_record, "type") THEN Raised
    ELSE IF cfs[i].type = yaml_record.doc.type THEN Found(cfs[i])
    ELSE FindFrom(yaml_record, cfs, i + 1)

find_matching_record(yaml_record, cfs) == FindFrom(yaml_record, cfs, 1)

\* Mutant: the ttl default is applied only to an absent key, as in .get("ttl", 3600).
TtlDefaultAbsentOnly(r) == IF "ttl" \in DOMAIN r THEN r.ttl ELSE DefaultTTL

\* r.get("ttl") or 3600
TtlOrDefault(r) == IF "ttl" \in DOMAIN r /\ r.ttl # 0 THEN r.ttl ELSE DefaultTTL

\* r.get("proxied") if it is not None else False
ProxiedOrDefault(r) == IF "proxied" \in DOMAIN r THEN r.proxied ELSE FALSE

\* a.get(field) != b.get(field), an absent field being None
GetDiffers(a, b, field) ==
    \/ (field \in DOMAIN a) # (field \in DOMAIN b)
    \/ field \in DOMAIN a /\ field \in DOMAIN b /\ a[field] # b[field]

\* Mutant: priority is compared for every record type.
records_differ_any_type(yaml_record, cf_record) ==
    \/ GetDiffers(yaml_record, cf_record, "content")
    \/ TtlOrDefault(yaml_record) # TtlOrDefault(cf_record)
    \/ ProxiedOrDefault(yaml_record) # ProxiedOrDefault(cf_record)
    \/ GetDiffers(yaml_record, cf_record, "priority")

records_differ(yaml_record, cf_record) ==
    \/ GetDiffers(yaml_record, cf_record, "content")
    \/ TtlOrDefault(yaml_record) # TtlOrDefault(cf_record)
    \/ ProxiedOrDefault(yaml_record) # ProxiedOrDefault(cf_record)
    \/ /\ yaml_record.type \in {"MX", "SRV"}
       /\ GetDiffers(yaml_record, cf_record, "priority")

(***************************************************************************)
(* CloudflareAPI: each operation is one request, recorded in `calls`.      *)
(***************************************************************************)
\* record.get("ttl", 3600): the default applies only when the key is absent
Payload(record) ==
    LET data == [type |-> record.type, name |-> record.name, content |-> record.content,
                 ttl |-> IF "ttl" \in DOMAIN record THEN record.ttl ELSE DefaultTTL,
                 proxied |-> IF "proxied" \in DOMAIN record THEN record.proxied ELSE FALSE]
    IN IF "priority" \in DOMAIN record
       THEN [f \in DOMAIN data \cup {"priority"} |->
                IF f = "priority" THEN record.priority ELSE data[f]]
       ELSE data

list_records(ok) == [op |-> "list", ok |-> ok]
create_record(record, ok) == [op |-> "create", data |-> Payload(record), ok |-> ok]
update_record(record_id, record, ok) ==
    [op |-> "update", id |-> record_id, data |-> Payload(record), ok |-> ok]
delete_record(record_id, ok) == [op |-> "delete", id |-> record_id, ok |-> ok]

(***************************************************************************)
(* The body of each of the three loops of sync() for one file: the calls   *)
(* it issues and the outcome line it prints.  `content` is what reading    *)
(* the file gives, `ok` whether the provider call (if any) succeeds.       *)
(***************************************************************************)
Step(cs, outcome) == [calls |-> cs, outcome |-> outcome]

\* Mutant: a deletion target missing from the snapshot counts as an error.
DeletionStepMissingIsError(content, cfs, ok) ==
    IF content.kind \in {"readfail", "parse_error"} THEN Step(<<>>, "error")
    ELSE LET cf_record == find_matching_record(content, cfs)
         IN IF cf_record.kind = "found"
            THEN Step(<<delete_record(cf_record.rec.id, ok)>>,
                      IF ok THEN "deleted" ELSE "error")
            ELSE Step(<<>>, "error")

\* Deletions read `git show HEAD~1:<path>` and yaml.safe_load it; the
\* document is not passed through load_yaml_record.
DeletionStep(content, cfs, ok) ==
    IF content.kind \in {"readfail", "parse_error"} THEN Step(<<>>, "error")
    ELSE LET cf_record == find_matching_record(content, cfs)
         IN IF cf_record.kind = "raise" THEN Step(<<>>, "error")
            ELSE IF cf_record.kind = "found"
            THEN Step(<<delete_record(cf_record.rec.id, ok)>>,
                      IF ok THEN "deleted" ELSE "error")
            \* the warning line formats yaml_record['name'] and yaml_record['type']
            ELSE IF HasKey(content, "name") /\ HasKey(content, "type")
            THEN Step(<<>>, "warning")
            ELSE Step(<<>>, "error")

\* Mutant: an added file is always created, whatever the snapshot holds.
AdditionStepAlwaysCreate(content, cfs, ok) ==
    LET loaded == load_yaml_record(content)
    IN IF loaded.kind = "raise" THEN Step(<<>>, "error")
       ELSE Step(<<create_record(loaded.value.doc, ok)>>,
                 IF ok THEN "created" ELSE "error")

AdditionStep(content, cfs, ok) ==
    LET loaded == load_yaml_record(content)
    IN IF loaded.kind = "raise" THEN Step(<<>>, "error")
       ELSE LET yaml_record == loaded.value
                cf_record == find_matching_record(yaml_record, cfs)
            IN IF cf_record.kind = "found"
               THEN IF records_differ(yaml_record.doc, cf_record.rec)
                    THEN Step(<<update_record(cf_record.rec.id, yaml_record.doc, ok)>>,
                              IF ok THEN "updated" ELSE "error")
                    ELSE Step(<<>>, "noop")
               ELSE Step(<<create_record(yaml_record.doc, ok)>>,
                         IF ok THEN "created" ELSE "error")

\* Mutant: a failed update or create is tried a second time.
ModificationStepRetry(content, cfs, ok) ==
    LET once == AdditionStep(content, cfs, ok)
    IN IF once.calls # <<>> /\ ~ok THEN Step(once.calls \o once.calls, "error") ELSE once

ModificationStep(content, cfs, ok) ==
    LET loaded == load_yaml_record(content)
    IN IF loaded.kind = "raise" THEN Step(<<>>, "error")
       ELSE LET yaml_record == loaded.value
                cf_record == find_matching_record(yaml_record, cfs)
            IN IF cf_record.kind = "found"
               THEN IF records_differ(yaml_record.doc, cf_record.rec)
                    THEN Step(<<update_record(cf_record.rec.id, yaml_record.doc, ok)>>,
                              IF ok THEN "updated" ELSE "error")
                    ELSE Step(<<>>, "noop")
               ELSE Step(<<create_record(yaml_record.doc, ok)>>,
                         IF ok THEN "created" ELSE "error")

(***************************************************************************)
(* The run.                                                                *)
(***************************************************************************)
Init ==
    /\ pc = "start"
    /\ changeReport = "unread"
    /\ report = <<>>
    /\ changes = NoChanges
    /\ cf_records = <<>>
    /\ calls = <<>>
    /\ results = <<>>

\* The files of a phase that the loop of that phase has been through.
Processed(phase) == {results[i].filepath : i \in {j \in DOMAIN results : results[j].phase = phase}}

Record(phase, filepath, content, step) ==
    /\ calls' = calls \o step.calls
    /\ results' = Append(results, [phase |-> phase, filepath |-> filepath,
                                   content |-> content, outcome |-> step.outcome,
                                   first |-> Len(calls) + 1,
                                   last |-> Len(calls) + Len(step.calls)])

\* changes = self.get_changed_files(); an exception leaves sync() and main()
\* exits with status 1.
GetChangedFiles ==
    /\ pc = "start"
    /\ \E gitOk \in BOOLEAN, lines \in Reports :
          IF ~gitOk
          THEN /\ changeReport' = "git_failed"
               /\ pc' = "fatal"
               /\ UNCHANGED <<report, changes>>
          ELSE /\ changeReport' = "read"
               /\ report' = lines
               /\ LET got == get_changed_files(lines)
                  IN IF got.kind = "raise"
                     THEN pc' = "fatal" /\ UNCHANGED changes
                     ELSE pc' = "classified" /\ changes' = got.value
    /\ UNCHANGED <<cf_records, calls, results>>

\* Mutant: the early return on an empty ChangeSet is missing.
CheckChangesAlwaysFetch ==
    /\ pc = "classified"
    /\ pc' = "fetch"
    /\ report' = <<>>
    /\ UNCHANGED <<changeReport, changes, cf_records, calls, results>>

\* if not any(changes.values()): return
CheckChanges ==
    /\ pc = "classified"
    /\ pc' = IF changes.added = {} /\ changes.modified = {} /\ changes.deleted = {}
             THEN "nochanges" ELSE "fetch"
    /\ report' = <<>>
    /\ UNCHANGED <<changeReport, changes, cf_records, calls, results>>

\* Mutant: a failed list_records is swallowed and the run goes on with an
\* empty snapshot.
FetchSnapshotSwallowsFailure ==
    /\ pc = "fetch"
    /\ \E ok \in BOOLEAN, snapshot \in Snapshots :
          /\ calls' = Append(calls, list_records(ok))
          /\ cf_records' = IF ok THEN snapshot ELSE <<>>
          /\ pc' = "deleted"
    /\ UNCHANGED <<changeReport, report, changes, results>>

\* cf_records = self.api.list_records()
FetchSnapshot ==
    /\ pc = "fetch"
    /\ \E ok \in BOOLEAN, snapshot \in Snapshots :
          /\ calls' = Append(calls, list_records(ok))
          /\ IF ok THEN cf_records' = snapshot /\ pc' = "deleted"
                   ELSE pc' = "fatal" /\ UNCHANGED cf_records
    /\ UNCHANGED <<changeReport, report, changes, results>>

\* Mutant: a record deleted at the provider is also dropped from the snapshot.
ProcessDeletionDropsDeleted ==
    /\ pc = "deleted"
    /\ \E filepath \in changes.deleted \ Processed("deleted"),
          content \in Contents, ok \in BOOLEAN :
          LET step == DeletionStep(content, cf_records, ok)
              gone == {step.calls[k].id : k \in {n \in DOMAIN step.calls : step.calls[n].ok}}
          IN /\ Record("deleted", filepath, content, step)
             /\ cf_records' = SelectSeq(cf_records, LAMBDA r : r.id \notin gone)
    /\ UNCHANGED <<pc, changeReport, report, changes>>

\* Mutant: the snapshot is fetched again after each deletion.
ProcessDeletionRefetch ==
    /\ pc = "deleted"
    /\ \E filepath \in changes.deleted \ Processed("deleted"),
          content \in Contents, ok \in BOOLEAN, snapshot \in Snapshots :
          LET step == DeletionStep(content, cf_records, ok)
          IN /\ calls' = (calls \o step.calls) \o <<list_records(TRUE)>>
             /\ results' = Append(results, [phase |-> "deleted", filepath |-> filepath,
                                            content |-> content, outcome |-> step.outcome,
                                            first |-> Len(calls) + 1,
                                            last |-> Len(calls) + Len(step.calls)])
             /\ cf_records' = snapshot
    /\ UNCHANGED <<pc, changeReport, report, changes>>

ProcessDeletion ==
    /\ pc = "deleted"
    /\ \E filepath \in changes.deleted \ Processed("deleted"),
          content \in Contents, ok \in BOOLEAN :
          Record("deleted", filepath, content, DeletionStep(content, cf_records, ok))
    /\ UNCHANGED <<pc, changeReport, report, changes, cf_records>>

EndDeletions ==
    /\ pc = "deleted"
    /\ changes.deleted \subseteq Processed("deleted")
    /\ pc' = "added"
    /\ UNCHANGED <<changeReport, report, changes, cf_records, calls, results>>

\* Mutant: the loop over the added files has no try/except.
ProcessAdditionUncaught ==
    /\ pc = "added"
    /\ \E filepath \in changes.added \ Processed("added"),
          content \in Contents, ok \in BOOLEAN :
          LET step == AdditionStep(content, cf_records, ok)
          IN IF step.outcome = "error"
             THEN /\ pc' = "fatal"
                  /\ calls' = calls \o step.calls
                  /\ UNCHANGED results
             ELSE /\ Record("added", filepath, content, step)
                  /\ UNCHANGED pc
    /\ UNCHANGED <<changeReport, report, changes, cf_records>>

ProcessAddition ==
    /\ pc = "added"
    /\ \E filepath \in changes.added \ Processed("added"),
          content \in Contents, ok \in BOOLEAN :
          Record("added", filepath, content, AdditionStep(content, cf_records, ok))
    /\ UNCHANGED <<pc, changeReport, report, changes, cf_records>>

EndAdditions ==
    /\ pc = "added"
    /\ changes.added \subseteq Processed("added")
    /\ pc' = "modified"
    /\ UNCHANGED <<changeReport, report, changes, cf_records, calls, results>>

\* Mutant: the modifications are not held back until the additions are done.
ProcessModificationEarly ==
    /\ pc \in {"added", "modified"}
    /\ \E filepath \in changes.modified \ Processed("modified"),
          content \in Contents, ok \in BOOLEAN :
          Record("modified", filepath, content, ModificationStep(content, cf_records, ok))
    /\ UNCHANGED <<pc, changeReport, report, changes, cf_records>>

\* Mutant: the loop over the modified files has no try/except.
ProcessModificationUncaught ==
    /\ pc = "modified"
    /\ \E filepath \in changes.modified \ Processed("modified"),
          content \in Contents, ok \in BOOLEAN :
          LET step == ModificationStep(content, cf_records, ok)
          IN IF step.outcome = "error"
             THEN /\ pc' = "fatal"
                  /\ calls' = calls \o step.calls
                  /\ UNCHANGED results
             ELSE /\ Record("modified", filepath, content, step)
                  /\ UNCHANGED pc
    /\ UNCHANGED <<changeReport, report, changes, cf_records>>

ProcessModification ==
    /\ pc = "modified"
    /\ \E filepath \in changes.modified \ Processed("modified"),
          content \in Contents, ok \in BOOLEAN :
          Record("modified", filepath, content, ModificationStep(content, cf_records, ok))
    /\ UNCHANGED <<pc, changeReport, report, changes, cf_records>>

\* print("Sync complete!")
EndModifications ==
    /\ pc = "modified"
    /\ changes.modified \subseteq Processed("modified")
    /\ pc' = "complete"
    /\ UNCHANGED <<changeReport, report, changes, cf_records, calls, results>>

Next ==
    \/ GetChangedFiles
    \/ CheckChanges
    \/ FetchSnapshot
    \/ ProcessDeletion
    \/ EndDeletions
    \/ ProcessAddition
    \/ EndAdditions
    \/ ProcessModification
    \/ EndModifications

Spec == Init /\ [][Next]_vars

\* The run is sequential code: whatever step is enabled is eventually taken.
FairSpec == Spec /\ WF_vars(Next)

(***************************************************************************)
(* Vocabulary of the properties.                                           *)
(***************************************************************************)
Rank(phase) == IF phase = "deleted" THEN 1 ELSE IF phase = "added" THEN 2 ELSE 3

\* The provider calls issued while results[i] was being processed.
CallsOf(r) == {calls[k] : k \in r.first .. r.last}

NumCalls(r) == r.last - r.first + 1

\* The snapshot records with the (name, type) of definition d.
SameIdentity(d) ==
    {k \in DOMAIN cf_records : cf_records[k].name = d.name /\ cf_records[k].type = d.type}

FirstSameIdentity(d) ==
    cf_records[CHOOSE k \in SameIdentity(d) : \A m \in SameIdentity(d) : k <= m]

\* A definition with all of name, type and content.
IsLoaded(content) ==
    content.kind = "map" /\ {"name", "type", "content"} \subseteq DOMAIN content.doc

\* A document recovered from history that carries an identity.
HasIdentity(content) ==
    content.kind = "map" /\ {"name", "type"} \subseteq DOMAIN content.doc

SnapshotFetched == pc \in {"deleted", "added", "modified", "complete"}

Terminated == pc \in {"complete", "nochanges", "fatal"}

ResultsIn(phase) == {i \in DOMAIN results : results[i].phase = phase}

\* C1: every successfully loaded definition of an added or modified path gets
\* exactly one action, chosen from the snapshot: a create call iff no snapshot
\* record has its (name, type); an update call addressed to the matched (first)
\* record's id iff one has and records_differ is true; no call iff one has and
\* records_differ is false.
C1_ActionSelection ==
    \A i \in DOMAIN results :
        LET r == results[i]
        IN (r.phase \in {"added", "modified"} /\ IsLoaded(r.content)) =>
              LET d == r.content.doc
              IN IF SameIdentity(d) = {}
                 THEN /\ NumCalls(r) = 1
                      /\ \A c \in CallsOf(r) : c.op = "create" /\ c.data.name = d.name
                                                /\ c.data.type = d.type
                 ELSE IF records_differ(d, FirstSameIdentity(d))
                 THEN /\ NumCalls(r) = 1
                      /\ \A c \in CallsOf(r) :
                            c.op = "update" /\ c.id = FirstSameIdentity(d).id
                 ELSE NumCalls(r) = 0 /\ r.outcome = "noop"

\* A completed run in which an added file was updated (its record was already
\* live) and a modified file was left alone.
C1_Witness ==
    /\ pc = "complete"
    /\ \E i, j \in DOMAIN results :
          /\ results[i].outcome = "updated" /\ results[i].phase = "added"
          /\ results[j].outcome = "noop" /\ results[j].phase = "modified"

\* C2: for a deleted path whose recovered definition has an identity: if a
\* snapshot record has the same (name, type), exactly one delete call is issued,
\* addressed to that (first) record's id; if none has, the outcome is a warning,
\* no call is made for the file, and the run is not fatal and goes on to
\* completion.
C2_DeletionSelection ==
    \A i \in DOMAIN results :
        LET r == results[i]
        IN (r.phase = "deleted" /\ HasIdentity(r.content)) =>
              LET d == r.content.doc
              IN IF SameIdentity(d) # {}
                 THEN /\ NumCalls(r) = 1
                      /\ \A c \in CallsOf(r) :
                            c.op = "delete" /\ c.id = FirstSameIdentity(d).id
                 ELSE /\ r.outcome = "warning"
                      /\ NumCalls(r) = 0
                      /\ pc # "fatal"
                      /\ pc = "complete" \/ ENABLED Next

\* A completed run with one deletion warned about and one record deleted, the
\* snapshot holding two records of the deleted identity.
C2_Witness ==
    /\ pc = "complete"
    /\ \E i, j \in DOMAIN results :
          /\ results[i].outcome = "warning"
          /\ results[j].outcome = "deleted"
          /\ Cardinality(SameIdentity(results[j].content.doc)) = 2

\* A fault while processing results[i]: the history or file read fails, the
\* document does not parse or is no mapping, a field the code needs is
\* missing, or the provider call fails.
Faulted(r) ==
    \/ r.content.kind \in {"readfail", "parse_error", "none"}
    \/ r.phase = "deleted" /\ ~HasIdentity(r.content)
    \/ r.phase \in {"added", "modified"} /\ ~IsLoaded(r.content)
    \/ \E c \in CallsOf(r) : ~c.ok

\* C3: once the change report and the snapshot are there, a fault in one file is
\* that file's error outcome and stops nothing: the run is never fatal, each
\* phase is left only when every path of its set has been processed, and the
\* run completes only when every path of all three sets has been.
C3_FaultIsolation ==
    /\ \A i \in DOMAIN results : Faulted(results[i]) <=> results[i].outcome = "error"
    /\ (\E k \in DOMAIN calls : calls[k].op = "list" /\ calls[k].ok) => pc # "fatal"
    /\ results # <<>> => pc # "fatal"
    /\ pc \in {"added", "modified", "complete"} => Processed("deleted") = changes.deleted
    /\ pc \in {"modified", "complete"} => Processed("added") = changes.added
    /\ pc = "complete" => Processed("modified") = changes.modified
    /\ SnapshotFetched => pc = "complete" \/ ENABLED Next

\* A completed run whose first file faulted and was followed by another file
\* of the same set, which did not.
C3_Witness ==
    /\ pc = "complete"
    /\ Len(results) = 2
    /\ results[1].outcome = "error"
    /\ results[2].outcome \in {"created", "updated", "deleted"}
    /\ results[1].phase = results[2].phase

\* C4: if list_records fails the run is fatal: no file is processed and the
\* failed list call is the only provider call of the run.
C4_SnapshotFailureFatal ==
    (\E k \in DOMAIN calls : calls[k].op = "list" /\ ~calls[k].ok) =>
        /\ pc = "fatal"
        /\ results = <<>>
        /\ Len(calls) = 1

\* A fatal run: two changed files, a failed fetch, nothing else done.
C4_Witness ==
    /\ pc = "fatal"
    /\ Len(calls) = 1 /\ calls[1].op = "list" /\ ~calls[1].ok
    /\ Cardinality(changes.added \cup changes.modified \cup changes.deleted) = 2

\* C5: the calls of a run come in phase order: the snapshot fetch first, then
\* every call for a deleted path, then every call for an added path, then every
\* call for a modified path.
C5_PhaseOrder ==
    /\ \A i, j \in DOMAIN results :
          (NumCalls(results[i]) > 0 /\ NumCalls(results[j]) > 0
               /\ Rank(results[i].phase) < Rank(results[j].phase))
             => results[i].last < results[j].first
    /\ \A i \in DOMAIN results :
          NumCalls(results[i]) > 0 =>
             \E k \in 1 .. results[i].first - 1 : calls[k].op = "list"

\* A run with the fetch and a call in each of two phases.
C5_Witness ==
    /\ Len(calls) = 3
    /\ \E i, j \in DOMAIN results :
          /\ Rank(results[i].phase) < Rank(results[j].phase)
          /\ NumCalls(results[i]) = 1
          /\ NumCalls(results[j]) = 1

ListCalls == {k \in DOMAIN calls : calls[k].op = "list"}

\* C6: list_records is called at most once in a run; in a run with a non-empty
\* ChangeSet that got past the fetch it was called exactly once, as the first
\* provider call, and never again.
C6_SnapshotFetchedOnce ==
    /\ Cardinality(ListCalls) <= 1
    /\ ListCalls \subseteq {1}
    /\ (SnapshotFetched \/ results # <<>>) => ListCalls = {1}

\* A completed run of one fetch followed by two actions.
C6_Witness ==
    /\ pc = "complete"
    /\ Len(calls) = 3
    /\ ListCalls = {1}

AllEmpty == changes.added = {} /\ changes.modified = {} /\ changes.deleted = {}

\* C7: a run whose ChangeSet is empty in all three sets ends successfully
\* without any provider call: no list_records, no create, update or delete.
C7_NoChangesNoCalls ==
    (changeReport = "read" /\ pc # "fatal" /\ AllEmpty) =>
        /\ pc \in {"classified", "nochanges"}
        /\ calls = <<>>
        /\ results = <<>>

\* The run ended without a call on an empty ChangeSet.
C7_Witness ==
    /\ pc = "nochanges"
    /\ AllEmpty
    /\ calls = <<>>

UnparsableReport == \E k \in DOMAIN report : report[k].parts < 2

\* C8: every run whose change report and snapshot fetch succeed reaches
\* 'complete', whatever per-file warnings or errors occur, and stays there;
\* the run is fatal only when the change report or the snapshot fetch failed.
C8_Completes ==
    /\ [](SnapshotFetched => <>[](pc = "complete"))
    /\ [](pc = "fatal" =>
             \/ changeReport = "git_failed"
             \/ UnparsableReport
             \/ \E k \in DOMAIN calls : calls[k].op = "list" /\ ~calls[k].ok)

\* A completed run of two files: a warning and an error.
C8_Witness ==
    /\ pc = "complete"
    /\ \E i, j \in DOMAIN results :
          results[i].outcome = "warning" /\ results[j].outcome = "error"

\* C9: each processing of a changed-file entry issues at most one call, every
\* create/update/delete call belongs to one processing, and no entry is
\* processed twice, so a failed call is not issued again; the file after a
\* failed call is another entry.
C9_AttemptedOnce ==
    /\ \A i \in DOMAIN results : NumCalls(results[i]) \in {0, 1}
    /\ \A i, j \in DOMAIN results :
          (results[i].phase = results[j].phase
              /\ results[i].filepath = results[j].filepath) => i = j
    /\ \A k \in DOMAIN calls :
          calls[k].op # "list" =>
             Cardinality({i \in DOMAIN results : results[i].first = k
                                                  /\ results[i].last = k}) = 1

\* A failed call followed by the processing of the next file.
C9_Witness ==
    \E i \in DOMAIN results :
        /\ i < Len(results)
        /\ NumCalls(results[i]) = 1
        /\ \E c \in CallsOf(results[i]) : ~c.ok
        /\ NumCalls(results[i + 1]) = 1

\* C10: for a deleted path, a recovered definition that lacks any of name, type
\* or content is that file's error outcome (and the run is not aborted).
C10_DeletedValidationError ==
    \A i \in DOMAIN results :
        (results[i].phase = "deleted" /\ results[i].content.kind = "map"
             /\ ~IsLoaded(results[i].content))
          => results[i].outcome = "error" /\ pc # "fatal"

\* C11: for every change report, also one that lists a path under more than
\* one status, the sets added, modified and deleted are pairwise disjoint.
C11_Disjoint ==
    /\ changes.added \cap changes.modified = {}
    /\ changes.added \cap changes.deleted = {}
    /\ changes.modified \cap changes.deleted = {}

\* The set get_changed_files keeps for a status code.
SetOfStatus(s) ==
    IF s = "A" THEN changes.added ELSE IF s = "M" THEN changes.modified ELSE changes.deleted

\* C12: when get_changed_files returns, a path is in the set of status s (A, M
\* or D) iff the report has a line of status s for it and the path is under
\* "records/" with extension .yaml or .yml; so a path outside the directory,
\* with another extension, or listed only under another status is in no set.
C12_Classification ==
    pc = "classified" =>
        /\ \A s \in {"A", "M", "D"} : \A p \in Paths :
              p \in SetOfStatus(s) <=>
                 /\ \E k \in DOMAIN report :
                       report[k].parts = 2 /\ report[k].status = s /\ report[k].filepath = p
                 /\ p.dir = "records"
                 /\ p.ext \in {".yaml", ".yml"}
        /\ (changes.added \cup changes.modified \cup changes.deleted) \subseteq Paths

\* A report with a kept line and a record file under a status that is not A, M or D.
C12_Witness ==
    /\ pc = "classified"
    /\ report = <<Line("D", PathB), Line("R100", PathA)>>
    /\ changes = [added |-> {}, modified |-> {}, deleted |-> {PathB}]

\* C13: a report with an entry that is no (status, path) pair makes
\* get_changed_files fail, wherever the entry stands; the run is fatal and
\* makes no provider call.
C13_UnparsableFatal ==
    (changeReport = "read" /\ UnparsableReport) =>
        /\ pc = "fatal"
        /\ calls = <<>>
        /\ results = <<>>
        /\ changes = NoChanges

\* The unparsable entry follows a line that passed the filter.
C13_Witness ==
    /\ pc = "fatal"
    /\ report = <<Line("A", PathA), Unparsable>>

\* The calls of results[i] that are addressed to a provider id.
AddressedCalls(r) == {c \in CallsOf(r) : c.op \in {"update", "delete"}}

\* results[i] was handled as unmatched: a create call, or the deletion warning.
HandledAsUnmatched(r) == r.outcome = "warning" \/ \E c \in CallsOf(r) : c.op = "create"

\* The entries whose document went through the matcher with a full identity.
Matchable(r) ==
    IF r.phase = "deleted" THEN HasIdentity(r.content) ELSE IsLoaded(r.content)

\* C16: a definition is handled as unmatched iff no snapshot record has both its
\* name and its type; otherwise the record used is the first of that identity
\* in snapshot order, so no update or delete call goes to a later duplicate.
C16_FirstMatch ==
    \A i \in DOMAIN results :
        LET r == results[i]
        IN Matchable(r) =>
              /\ HandledAsUnmatched(r) <=>
                    ~\E k \in DOMAIN cf_records :
                         /\ cf_records[k].name = r.content.doc.name
                         /\ cf_records[k].type = r.content.doc.type
              /\ \A c \in AddressedCalls(r) :
                    \E k \in DOMAIN cf_records :
                       /\ cf_records[k].id = c.id
                       /\ cf_records[k].name = r.content.doc.name
                       /\ cf_records[k].type = r.content.doc.type
                       /\ \A m \in 1 .. k - 1 :
                             \/ cf_records[m].name # r.content.doc.name
                             \/ cf_records[m].type # r.content.doc.type

\* The snapshot holds two records of one identity; one file deleted and another
\* updated the first of them.
C16_Witness ==
    /\ cf_records = <<LiveA1, LiveA2>>
    /\ \E i, j \in DOMAIN results :
          /\ \E c \in CallsOf(results[i]) : c.op = "delete" /\ c.id = "r1"
          /\ \E c \in CallsOf(results[j]) : c.op = "update" /\ c.id = "r1"

SameIdentityPair(r1, r2) ==
    /\ Matchable(r1) /\ Matchable(r2)
    /\ r1.content.doc.name = r2.content.doc.name
    /\ r1.content.doc.type = r2.content.doc.type

\* C17: once fetched the snapshot never changes, whatever calls are made; so two
\* files of a run with the same (name, type) are both handled as unmatched or
\* both matched, and the calls they address go to the same provider id.
C17_SnapshotFrozen ==
    /\ [][SnapshotFetched => cf_records' = cf_records]_vars
    /\ [](\A i, j \in DOMAIN results :
             SameIdentityPair(results[i], results[j]) =>
                /\ HandledAsUnmatched(results[i]) <=> HandledAsUnmatched(results[j])
                /\ \A ci \in AddressedCalls(results[i]), cj \in AddressedCalls(results[j]) :
                      ci.id = cj.id)

\* A record was deleted at the provider and a later file of the same identity
\* was still matched against it.
C17_Witness ==
    /\ Len(results) = 2
    /\ results[1].outcome = "deleted"
    /\ results[2].outcome = "updated"
    /\ SameIdentityPair(results[1], results[2])

\* C19: a deleted file and another, added file of one identity that is in the
\* snapshot (once), the deletion having succeeded: the added file gets a create call, and no update call is ever
\* addressed to a provider id the run has already deleted.
C19_DeleteThenCreate ==
    \A i, j \in DOMAIN results :
        (/\ results[i].phase = "deleted" /\ results[i].outcome = "deleted"
         /\ results[j].phase = "added"
         /\ results[i].filepath # results[j].filepath
         /\ IsLoaded(results[i].content)
         /\ SameIdentityPair(results[i], results[j])
         /\ Cardinality(SameIdentity(results[i].content.doc)) = 1)
           => /\ \E c \in CallsOf(results[j]) : c.op = "create"
              /\ \A ci \in CallsOf(results[i]), cj \in CallsOf(results[j]) :
                    cj.op = "update" => cj.id # ci.id

(***************************************************************************)
(* The modifications loop over a wider range of definitions and live       *)
(* records: the run has classified two modified files and fetched a        *)
(* snapshot of one record; every optional field is absent or takes each of *)
(* a few values, on both sides.                                            *)
(***************************************************************************)
\* r with the optional field added when opt = <<TRUE, value>>.
WithOpt(r, field, opt) ==
    IF opt[1] THEN [k \in DOMAIN r \cup {field} |-> IF k = field THEN opt[2] ELSE r[k]]
    ELSE r

Absent == <<FALSE, 0>>
Given(S) == {<<TRUE, v>> : v \in S}

WideDefs ==
    {WithOpt(WithOpt(WithOpt([name |-> "a.example.com", type |-> t, content |-> "1.2.3.4"],
                             "ttl", ttl), "proxied", proxied), "priority", priority) :
        t \in {"A", "MX"},
        ttl \in {Absent} \cup Given({0, 300, 3600}),
        proxied \in {Absent} \cup Given({FALSE, TRUE}),
        priority \in {Absent} \cup Given({10})}

WideLives ==
    {WithOpt(WithOpt(WithOpt([id |-> "r1", name |-> "a.example.com", type |-> t,
                              content |-> "1.2.3.4"],
                             "ttl", ttl), "proxied", proxied), "priority", priority) :
        t \in {"A", "MX"},
        ttl \in {Absent} \cup Given({0, 3600}),
        proxied \in {Absent} \cup Given({FALSE, TRUE}),
        priority \in {Absent} \cup Given({10, 20})}

InitWide ==
    /\ pc = "modified"
    /\ changeReport = "read"
    /\ report = <<>>
    /\ changes = [added |-> {}, modified |-> {PathA, PathB}, deleted |-> {}]
    /\ cf_records \in {<<cf>> : cf \in WideLives}
    /\ calls = <<list_records(TRUE)>>
    /\ results = <<>>

ProcessModificationWide ==
    /\ pc = "modified"
    /\ \E filepath \in changes.modified \ Processed("modified"),
          d \in WideDefs, ok \in BOOLEAN :
          Record("modified", filepath, Map(d), ModificationStep(Map(d), cf_records, ok))
    /\ UNCHANGED <<pc, changeReport, report, changes, cf_records>>

NextWide ==
    \/ ProcessModificationWide
    \/ EndModifications

WideSpec == InitWide /\ [][NextWide]_vars

\* The live record results[i] was compared with, when it has the definition's type.
Compared(r) == cf_records[1].type = r.content.doc.type

\* The verdict of records_differ as the run shows it: an update call was issued.
Differs(r) == \E c \in CallsOf(r) : c.op = "update"

\* The value a side's ttl and proxied are compared as, in the claim's words:
\* an absent or falsy ttl as 3600, an absent proxied as false.
TtlAsCompared(x) == IF "ttl" \notin DOMAIN x THEN 3600 ELSE IF x.ttl = 0 THEN 3600 ELSE x.ttl
ProxiedAsCompared(x) == "proxied" \in DOMAIN x /\ x.proxied

\* d2 is d1 with the absent `field` set to `value`.
AddsField(d1, d2, field, value) ==
    /\ field \notin DOMAIN d1
    /\ DOMAIN d2 = DOMAIN d1 \cup {field}
    /\ d2[field] = value
    /\ \A k \in DOMAIN d1 : d2[k] = d1[k]

SamePriority(d, cf) ==
    /\ ("priority" \in DOMAIN d) = ("priority" \in DOMAIN cf)
    /\ "priority" \in DOMAIN d => d.priority = cf.priority

\* C14: records_differ defaults symmetrically. With content and (for MX/SRV)
\* priority equal, the verdict is exactly "ttl or proxied differ" once an absent
\* or falsy ttl counts as 3600 and an absent proxied as false, on either side;
\* and two definitions that differ only in ttl absent / 3600, or only in
\* proxied absent / false, get the same verdict against the same live record.
C14_SymmetricDefaults ==
    /\ \A i \in DOMAIN results :
          LET r == results[i]
              d == r.content.doc
              cf == cf_records[1]
          IN (Compared(r) /\ d.content = cf.content
                /\ (d.type \in {"MX", "SRV"} => SamePriority(d, cf)))
             => (Differs(r) <=> \/ TtlAsCompared(d) # TtlAsCompared(cf)
                                \/ ProxiedAsCompared(d) # ProxiedAsCompared(cf))
    /\ \A i, j \in DOMAIN results :
          LET di == results[i].content.doc
              dj == results[j].content.doc
          IN (Compared(results[i])
                /\ (AddsField(di, dj, "ttl", 3600) \/ AddsField(di, dj, "proxied", FALSE)))
             => (Differs(results[i]) <=> Differs(results[j]))

\* ttl and proxied absent in the definition, 3600 and false in the live record:
\* no change; and the definition with ttl 3600 written out: no change either.
C14_Witness ==
    /\ Len(results) = 2
    /\ results[1].content.doc = [name |-> "a.example.com", type |-> "A", content |-> "1.2.3.4"]
    /\ AddsField(results[1].content.doc, results[2].content.doc, "ttl", 3600)
    /\ cf_records[1].type = "A"
    /\ "ttl" \in DOMAIN cf_records[1] /\ cf_records[1].ttl = 3600
    /\ "proxied" \in DOMAIN cf_records[1] /\ ~cf_records[1].proxied
    /\ results[1].outcome = "noop"
    /\ results[2].outcome = "noop"

RestEqual(d, cf) ==
    /\ d.content = cf.content
    /\ TtlAsCompared(d) = TtlAsCompared(cf)
    /\ ProxiedAsCompared(d) = ProxiedAsCompared(cf)

\* C15: for a definition of type MX or SRV a priority that differs from the live
\* record's (or is there on one side only) gives differs = true, and an equal or
\* twice absent priority leaves the verdict to the other fields; for any other
\* type the verdict is that of the other fields whatever the two priorities
\* are, and two definitions that differ only in priority get the same verdict.
C15_PriorityOnlyForMX ==
    /\ \A i \in DOMAIN results :
          LET r == results[i]
              d == r.content.doc
              cf == cf_records[1]
          IN Compared(r) =>
                IF d.type \in {"MX", "SRV"}
                THEN /\ ~SamePriority(d, cf) => Differs(r)
                     /\ SamePriority(d, cf) => (Differs(r) <=> ~RestEqual(d, cf))
                ELSE Differs(r) <=> ~RestEqual(d, cf)
    /\ \A i, j \in DOMAIN results :
          LET di == results[i].content.doc
              dj == results[j].content.doc
          IN (Compared(results[i]) /\ di.type \notin {"MX", "SRV"}
                /\ AddsField(di, dj, "priority", 10))
             => (Differs(results[i]) <=> Differs(results[j]))

\* An MX definition without priority against a live MX record with one is
\* updated though nothing else differs; the same definition with the live
\* record's priority is left alone.
C15_Witness ==
    /\ Len(results) = 2
    /\ cf_records[1].type = "MX"
    /\ "priority" \in DOMAIN cf_records[1] /\ cf_records[1].priority = 10
    /\ results[1].content.doc.type = "MX"
    /\ RestEqual(results[1].content.doc, cf_records[1])
    /\ AddsField(results[1].content.doc, results[2].content.doc, "priority", 10)
    /\ Differs(results[1])
    /\ results[2].outcome = "noop"

\* C18: every create or update call carries the definition's name, type and
\* content, ttl 3600 and proxied false where the definition leaves them out,
\* and no priority when the definition's type is neither MX nor SRV.
C18_Payload ==
    \A i \in DOMAIN results :
        \A c \in CallsOf(results[i]) :
            LET d == results[i].content.doc
            IN c.op \in {"create", "update"} =>
                  /\ c.data.name = d.name /\ c.data.type = d.type
                  /\ c.data.content = d.content
                  /\ c.data.ttl = IF "ttl" \in DOMAIN d THEN d.ttl ELSE 3600
                  /\ c.data.proxied = IF "proxied" \in DOMAIN d THEN d.proxied ELSE FALSE
                  /\ d.type \notin {"MX", "SRV"} => "priority" \notin DOMAIN c.data

\* C20: what create/update send as ttl and proxied is what records_differ
\* compares for the definition, also for a ttl that is present but falsy; so a
\* file is left alone only when the payload it would send has the live
\* record's content, ttl and proxied (the live record listing both, its ttl
\* not 0).
C20_DefaultsAgree ==
    \A i \in DOMAIN results :
        LET r == results[i]
            d == r.content.doc
            cf == cf_records[1]
        IN /\ \A c \in CallsOf(r) :
                 c.op \in {"create", "update"} =>
                    /\ c.data.ttl = TtlAsCompared(d)
                    /\ c.data.proxied = ProxiedAsCompared(d)
           /\ (r.outcome = "noop" /\ {"ttl", "proxied"} \subseteq DOMAIN cf /\ cf.ttl # 0) =>
                 /\ Payload(d).content = cf.content
                 /\ Payload(d).ttl = cf.ttl
                 /\ Payload(d).proxied = cf.proxied

====
